---------------------------- MODULE Spec2Model ----------------------------
(***************************************************************************)
(* A model of open-package: the authenticated-encryption pipeline of       *)
(* package crypto (pkcs7Pad, EncryptAES256CBC, Encrypt) and the packaging   *)
(* workflow of package packager (createInnerZip, CreatePackage,             *)
(* createOuterPackage).                                                     *)
(*                                                                         *)
(* Byte strings are sequences over 0..255.  A Go slice is a record          *)
(* [arr, len]: arr is the whole backing array (its length is the slice's    *)
(* capacity) and len the slice length.  The standard-library primitives     *)
(* (AES, SHA-256, HMAC) are replaced by small stand-ins with the same       *)
(* shapes: a keyed bijection on 16-byte blocks, and 32-byte folds over the  *)
(* input in which any change of a single input byte changes the output.     *)
(***************************************************************************)
EXTENDS Integers, Sequences, FiniteSets, TLC

VARIABLES
    plaintext,  \* the caller's plaintext slice [arr, len]
    op,         \* the crypto operation that has been called ("none" before)
    result,     \* what that operation returned
    pathSep,    \* os.PathSeparator of the host
    run,        \* the packaging runs: run[r] is the state of CreatePackage r
    fs          \* the files at the output paths: path -> file

vars == <<plaintext, op, result, pathSep, run, fs>>

cryptoVars == <<plaintext, op, result>>

pkgVars == <<pathSep, run, fs>>

----------------------------------------------------------------------------
(* Bounds of the model *)

\* plaintext lengths 0..MaxPlainLen
MaxPlainLen == 17
\* plaintext byte patterns 0..MaxSeed
MaxSeed == 1

(* Program constants *)

AES256KeySize == 32
IVSize == 16
HMACSize == 32
BlockSize == 16
SHA256Size == 32

----------------------------------------------------------------------------
(* Go values *)

\* a nil slice / nil pointer
Nil == [nil |-> TRUE]

\* a nil error; an error is the chain of its wrapped messages, outermost first
NoErr == <<>>

\* make([]byte, n): n zero bytes
MakeBytes(n) == [i \in 1..n |-> 0]

\* the bytes a slice denotes
Bytes(s) == SubSeq(s.arr, 1, s.len)

Cap(s) == Len(s.arr)

\* a slice holding bytes b, with `spare` more zero bytes of capacity behind it
SliceOf(b, spare) == [arr |-> b \o MakeBytes(spare), len |-> Len(b)]

\* append(s, xs...): in place when the capacity suffices (the backing array
\* is shared with s), into a fresh array otherwise
GoAppend(s, xs) ==
    IF s.len + Len(xs) <= Cap(s)
    THEN [slice |-> [arr |-> [i \in 1..Cap(s) |->
                                IF i > s.len /\ i <= s.len + Len(xs)
                                THEN xs[i - s.len] ELSE s.arr[i]],
                     len |-> s.len + Len(xs)],
          inPlace |-> TRUE]
    ELSE [slice |-> [arr |-> Bytes(s) \o xs, len |-> s.len + Len(xs)],
          inPlace |-> FALSE]

----------------------------------------------------------------------------
(* Stand-ins for the standard library's primitives *)

RECURSIVE XorBits(_, _, _)
XorBits(a, b, n) ==
    IF n = 0 THEN 0
    ELSE ((a + b) % 2) + 2 * XorBits(a \div 2, b \div 2, n - 1)

XORBytes(x, y) == [i \in 1..Len(x) |-> XorBits(x[i], y[i], 8)]

\* cipher.Block.Encrypt: a bijection on blocks for every 32-byte key
AESEncryptBlock(key, b) ==
    [i \in 1..BlockSize |->
        (b[(i % BlockSize) + 1] + key[i] + key[i + BlockSize]) % 256]

\* cipher.Block.Decrypt: its inverse
AESDecryptBlock(key, c) ==
    [i \in 1..BlockSize |->
        LET j == ((i + BlockSize - 2) % BlockSize) + 1
        IN  (c[j] + 512 - key[j] - key[j + BlockSize]) % 256]

RECURSIVE CBCEncryptFrom(_, _, _, _)
CBCEncryptFrom(key, prev, src, k) ==
    IF (k - 1) * BlockSize >= Len(src) THEN <<>>
    ELSE LET blk == SubSeq(src, (k - 1) * BlockSize + 1, k * BlockSize)
             c   == AESEncryptBlock(key, XORBytes(blk, prev))
         IN  c \o CBCEncryptFrom(key, c, src, k + 1)

\* (mutation) the encrypter is set up with a zero IV instead of iv
CBCEncrypt_ZeroIV(key, iv, src) == CBCEncryptFrom(key, MakeBytes(IVSize), src, 1)

\* cipher.NewCBCEncrypter(block, iv).CryptBlocks(dst, src), for whole blocks
CBCEncrypt(key, iv, src) == CBCEncryptFrom(key, iv, src, 1)

RECURSIVE CBCDecryptFrom(_, _, _, _)
CBCDecryptFrom(key, prev, src, k) ==
    IF (k - 1) * BlockSize >= Len(src) THEN <<>>
    ELSE LET c == SubSeq(src, (k - 1) * BlockSize + 1, k * BlockSize)
         IN  XORBytes(AESDecryptBlock(key, c), prev)
                \o CBCDecryptFrom(key, c, src, k + 1)

\* cipher.NewCBCDecrypter(block, iv).CryptBlocks(dst, src)
CBCDecrypt(key, iv, src) == CBCDecryptFrom(key, iv, src, 1)

\* the sum of (s[i] + 1) * i over lo..hi; modulo a prime above every index
\* and every byte, changing a single byte of s changes it
RECURSIVE WeightedSum(_, _, _)
WeightedSum(s, lo, hi) ==
    IF lo > hi THEN 0
    ELSE IF lo = hi THEN (s[lo] + 1) * lo
    ELSE LET mid == (lo + hi) \div 2
         IN  WeightedSum(s, lo, mid) + WeightedSum(s, mid + 1, hi)

\* the 32 output bytes of a hash state h (bytes 1 and 2 determine h)
HashBytes(h, salt) ==
    [j \in 1..SHA256Size |->
        IF j = 1 THEN h % 256
        ELSE IF j = 2 THEN h \div 256
        ELSE (h + salt + 7 * j) % 256]

\* ComputeSHA256
ComputeSHA256(data) ==
    HashBytes((WeightedSum(data, 1, Len(data)) + Len(data)) % 32749, Len(data))

\* (mutation) h.Write(data) is left out: the MAC of the empty message
ComputeHMACSHA256_NoWrite(key, data) ==
    LET hk == WeightedSum(key, 1, Len(key)) + 3 * Len(key)
    IN  HashBytes(hk % 32749, hk)

\* ComputeHMACSHA256
ComputeHMACSHA256(key, data) ==
    LET hk == WeightedSum(key, 1, Len(key)) + 3 * Len(key)
    IN  HashBytes((WeightedSum(data, 1, Len(data)) + hk) % 32749, hk)

----------------------------------------------------------------------------
(* package crypto *)

\* spare capacity behind the bytes of a slice: none, or a full block
SpareCaps == {0, BlockSize}

\* what rand.Read leaves in a buffer of n bytes: one of a few byte patterns
RandBytes(n, seed) == [i \in 1..n |-> (seed * 101 + i * 13 + 5) % 256]

\* the patterns the random source produces
RandSeeds == {0, 1}

\* one read of the random source: it fills the buffer or fails
Draws == {[ok |-> FALSE, seed |-> 0]} \cup [ok : {TRUE}, seed : RandSeeds]

\* (mutation) the error of the read is dropped: the buffer stays zero
GenerateKey_IgnoreError(size, draw) ==
    IF ~draw.ok
    THEN [key |-> MakeBytes(size), err |-> NoErr]
    ELSE [key |-> RandBytes(size, draw.seed), err |-> NoErr]

GenerateKey(size, draw) ==
    IF ~draw.ok
    THEN [key |-> Nil, err |-> <<"failed to generate random key">>]
    ELSE [key |-> RandBytes(size, draw.seed), err |-> NoErr]

GenerateIV(draw) == GenerateKey(IVSize, draw)

\* (mutation) no padding for block-aligned input
pkcs7Pad_NoFullBlock(data, blockSize) ==
    LET padding  == (blockSize - (data.len % blockSize)) % blockSize
        padBytes == [i \in 1..padding |-> padding % 256]
    IN  GoAppend(data, padBytes)

\* (mutation) the pad bytes are left zero
pkcs7Pad_ZeroBytes(data, blockSize) ==
    LET padding  == blockSize - (data.len % blockSize)
        padBytes == MakeBytes(padding)
    IN  GoAppend(data, padBytes)

pkcs7Pad(data, blockSize) ==
    LET padding  == blockSize - (data.len % blockSize)
        padBytes == [i \in 1..padding |-> padding % 256]
    IN  GoAppend(data, padBytes)

\* (mutation) the length of the IV is not checked
EncryptAES256CBC_NoIVCheck(key, iv, plaintext_) ==
    IF Len(key) # AES256KeySize
    THEN [ciphertext |-> Nil, err |-> <<"invalid key size">>,
          arr |-> plaintext_.arr]
    ELSE LET padded          == pkcs7Pad(plaintext_, BlockSize)
             paddedPlaintext == Bytes(padded.slice)
             arrAfter        == IF padded.inPlace THEN padded.slice.arr
                                ELSE plaintext_.arr
         IN  [ciphertext |-> CBCEncrypt(key, iv, paddedPlaintext),
              err |-> NoErr, arr |-> arrAfter]

\* key and iv are byte strings, plaintext is a slice; arr is the backing
\* array of plaintext after the call
EncryptAES256CBC(key, iv, plaintext_) ==
    IF Len(key) # AES256KeySize
    THEN [ciphertext |-> Nil, err |-> <<"invalid key size">>,
          arr |-> plaintext_.arr]
    ELSE IF Len(iv) # IVSize
    THEN [ciphertext |-> Nil, err |-> <<"invalid IV size">>,
          arr |-> plaintext_.arr]
    ELSE LET padded          == pkcs7Pad(plaintext_, BlockSize)
             paddedPlaintext == Bytes(padded.slice)
             arrAfter        == IF padded.inPlace THEN padded.slice.arr
                                ELSE plaintext_.arr
         IN  IF Len(paddedPlaintext) % BlockSize # 0
             THEN [ciphertext |-> Nil,
                   err |-> <<"panic: crypto/cipher: input not full blocks">>,
                   arr |-> arrAfter]
             ELSE [ciphertext |-> CBCEncrypt(key, iv, paddedPlaintext),
                   err |-> NoErr, arr |-> arrAfter]

\* (mutation) the MAC key is drawn with the IV's size
GenerateMacKey_IVSize(draw) == GenerateKey(IVSize, draw)

\* the draw of the MAC key in Encrypt
GenerateMacKey(draw) == GenerateKey(AES256KeySize, draw)

\* (mutation) the MAC input leaves the IV out
DataToMAC_CiphertextOnly(iv, ciphertext) == GoAppend(SliceOf(<<>>, 0), ciphertext)

\* dataToMAC := append(iv, ciphertext...), iv being a slice without spare
\* capacity (GenerateKey makes it with len = cap = IVSize)
DataToMAC(iv, ciphertext) == GoAppend(SliceOf(iv, 0), ciphertext)

\* (mutation) the IV is written before the MAC
EncryptOutput_IvFirst(mac, iv, ciphertext) == iv \o mac \o ciphertext

\* output := mac, then iv, then ciphertext, appended to an empty buffer
EncryptOutput(mac, iv, ciphertext) == mac \o iv \o ciphertext

\* (mutation) UnencryptedSize is taken from the capacity of the slice
NewEncryptionInfo_CapSize(encryptionKey, macKey, iv, mac, fileDigest, plaintext_) ==
    [EncryptionKey   |-> encryptionKey,
     MacKey          |-> macKey,
     IV              |-> iv,
     MAC             |-> mac,
     FileDigest      |-> fileDigest,
     UnencryptedSize |-> Cap(plaintext_)]

\* info := &EncryptionInfo{...}
NewEncryptionInfo(encryptionKey, macKey, iv, mac, fileDigest, plaintext_) ==
    [EncryptionKey   |-> encryptionKey,
     MacKey          |-> macKey,
     IV              |-> iv,
     MAC             |-> mac,
     FileDigest      |-> fileDigest,
     UnencryptedSize |-> plaintext_.len]

\* the failure return of Encrypt
EncryptFailed(msg, cause, arr, draws) ==
    [info |-> Nil, output |-> Nil, err |-> <<msg>> \o cause,
     arr |-> arr, draws |-> draws, ciphertext |-> Nil]

\* (mutation) the encryption key is used as the MAC key too
Encrypt_OneKey(plaintext_, rnd) ==
    LET k1 == GenerateKey(AES256KeySize, rnd[1])
        k2 == GenerateMacKey(rnd[2])
        k3 == GenerateIV(rnd[3])
        encryptionKey == k1.key
        macKey        == k1.key
        iv            == k3.key
        fileDigest    == ComputeSHA256(Bytes(plaintext_))
        enc           == EncryptAES256CBC(encryptionKey, iv, plaintext_)
        ciphertext    == enc.ciphertext
        dataToMAC     == DataToMAC(iv, ciphertext)
        mac           == ComputeHMACSHA256(macKey, Bytes(dataToMAC.slice))
        \* iv shares its backing array with dataToMAC when append was in place
        ivAfter       == IF dataToMAC.inPlace
                         THEN SubSeq(dataToMAC.slice.arr, 1, Len(iv)) ELSE iv
    IN  IF k1.err # NoErr
        THEN EncryptFailed("failed to generate encryption key", k1.err,
                           plaintext_.arr, 1)
        ELSE IF k2.err # NoErr
        THEN EncryptFailed("failed to generate MAC key", k2.err,
                           plaintext_.arr, 2)
        ELSE IF k3.err # NoErr
        THEN EncryptFailed("failed to generate IV", k3.err,
                           plaintext_.arr, 3)
        ELSE IF enc.err # NoErr
        THEN EncryptFailed("encryption failed", enc.err, enc.arr, 3)
        ELSE [info |-> NewEncryptionInfo(encryptionKey, macKey, ivAfter, mac,
                                         fileDigest, plaintext_),
              output |-> EncryptOutput(mac, ivAfter, ciphertext),
              err |-> NoErr, arr |-> enc.arr, draws |-> 3,
              ciphertext |-> ciphertext]

\* rnd: the outcomes of the reads of the random source, in call order.
\* Beside the three return values the result records the backing array of
\* plaintext after the call (arr), the number of reads of the random source
\* (draws) and the local variable ciphertext.
Encrypt(plaintext_, rnd) ==
    LET k1 == GenerateKey(AES256KeySize, rnd[1])
        k2 == GenerateMacKey(rnd[2])
        k3 == GenerateIV(rnd[3])
        encryptionKey == k1.key
        macKey        == k2.key
        iv            == k3.key
        fileDigest    == ComputeSHA256(Bytes(plaintext_))
        enc           == EncryptAES256CBC(encryptionKey, iv, plaintext_)
        ciphertext    == enc.ciphertext
        dataToMAC     == DataToMAC(iv, ciphertext)
        mac           == ComputeHMACSHA256(macKey, Bytes(dataToMAC.slice))
        \* iv shares its backing array with dataToMAC when append was in place
        ivAfter       == IF dataToMAC.inPlace
                         THEN SubSeq(dataToMAC.slice.arr, 1, Len(iv)) ELSE iv
    IN  IF k1.err # NoErr
        THEN EncryptFailed("failed to generate encryption key", k1.err,
                           plaintext_.arr, 1)
        ELSE IF k2.err # NoErr
        THEN EncryptFailed("failed to generate MAC key", k2.err,
                           plaintext_.arr, 2)
        ELSE IF k3.err # NoErr
        THEN EncryptFailed("failed to generate IV", k3.err,
                           plaintext_.arr, 3)
        ELSE IF enc.err # NoErr
        THEN EncryptFailed("encryption failed", enc.err, enc.arr, 3)
        ELSE [info |-> NewEncryptionInfo(encryptionKey, macKey, ivAfter, mac,
                                         fileDigest, plaintext_),
              output |-> EncryptOutput(mac, ivAfter, ciphertext),
              err |-> NoErr, arr |-> enc.arr, draws |-> 3,
              ciphertext |-> ciphertext]

----------------------------------------------------------------------------
(* Strings and package path/filepath.  A string is a sequence of tokens: a   *)
(* separator ("/" or "\") or a piece of a name.                              *)

\* a local variable: body F sees the value v under the name it binds
Bind(v, F(_)) == F(v)

\* s with every token old replaced by new
ReplaceAll(s, old, new) == [i \in 1..Len(s) |-> IF s[i] = old THEN new ELSE s[i]]

HasSuffix(s, tok) == Len(s) >= 1 /\ s[Len(s)] = tok

\* the elements of a path between separators, empty ones dropped
RECURSIVE SplitFrom(_, _, _, _)
SplitFrom(s, i, cur, sep) ==
    LET done == IF cur = <<>> THEN <<>> ELSE <<cur>>
    IN  IF i > Len(s) THEN done
        ELSE IF s[i] = sep THEN done \o SplitFrom(s, i + 1, <<>>, sep)
        ELSE SplitFrom(s, i + 1, Append(cur, s[i]), sep)

Components(s, sep) == SplitFrom(s, 1, <<>>, sep)

RECURSIVE JoinComps(_, _)
JoinComps(comps, sep) ==
    IF comps = <<>> THEN <<>>
    ELSE IF Len(comps) = 1 THEN comps[1]
    ELSE comps[1] \o <<sep>> \o JoinComps(Tail(comps), sep)

\* filepath.Clean's pass over the elements: "." is dropped, ".." removes the
\* element before it (or is dropped at the root, or kept at the front)
RECURSIVE Resolve(_, _, _, _)
Resolve(comps, i, stack, rooted) ==
    IF i > Len(comps) THEN stack
    ELSE LET c == comps[i]
         IN  IF c = <<".">> THEN Resolve(comps, i + 1, stack, rooted)
             ELSE IF c = <<"..">>
             THEN IF stack # <<>> /\ stack[Len(stack)] # <<"..">>
                  THEN Resolve(comps, i + 1, SubSeq(stack, 1, Len(stack) - 1), rooted)
                  ELSE IF rooted THEN Resolve(comps, i + 1, stack, rooted)
                  ELSE Resolve(comps, i + 1, Append(stack, c), rooted)
             ELSE Resolve(comps, i + 1, Append(stack, c), rooted)

\* filepath.Clean
Clean(s, sep) ==
    LET rooted == s # <<>> /\ s[1] = sep
    IN  Bind(JoinComps(Resolve(Components(s, sep), 1, <<>>, rooted), sep),
             LAMBDA body :
                IF rooted THEN <<sep>> \o body
                ELSE IF body = <<>> THEN <<".">> ELSE body)

\* filepath.Join of two elements: empty elements are ignored, the result is
\* cleaned
Join(a, b, sep) ==
    IF a = <<>> /\ b = <<>> THEN <<>>
    ELSE IF a = <<>> THEN Clean(b, sep)
    ELSE IF b = <<>> THEN Clean(a, sep)
    ELSE Clean(a \o <<sep>> \o b, sep)

RECURSIVE StripTrailing(_, _)
StripTrailing(s, sep) ==
    IF s # <<>> /\ s[Len(s)] = sep
    THEN StripTrailing(SubSeq(s, 1, Len(s) - 1), sep) ELSE s

\* filepath.Base: the last element; "." for the empty path, the separator
\* for a path of separators only
Base(path, sep) ==
    IF path = <<>> THEN <<".">>
    ELSE Bind(StripTrailing(path, sep), LAMBDA stripped :
            IF stripped = <<>> THEN <<sep>>
            ELSE Bind(Components(stripped, sep), LAMBDA comps : comps[Len(comps)]))

RECURSIVE CommonPrefix(_, _, _)
CommonPrefix(x, y, k) ==
    IF k < Len(x) /\ k < Len(y) /\ x[k + 1] = y[k + 1]
    THEN CommonPrefix(x, y, k + 1) ELSE k

\* filepath.Rel
Rel(basepath, targpath, sep) ==
    Bind(Clean(basepath, sep), LAMBDA base :
    Bind(Clean(targpath, sep), LAMBDA targ :
    Bind(IF base = <<".">> THEN <<>> ELSE Components(base, sep), LAMBDA bc :
    Bind(IF targ = <<".">> THEN <<>> ELSE Components(targ, sep), LAMBDA tc :
    Bind(CommonPrefix(bc, tc, 0), LAMBDA k :
        IF targ = base THEN [path |-> <<".">>, err |-> NoErr]
        ELSE IF (base[1] = sep) # (targ[1] = sep)
                \/ \E i \in (k + 1)..Len(bc) : bc[i] = <<"..">>
        THEN [path |-> <<>>, err |-> <<"Rel: can't make relative">>]
        ELSE [path |-> JoinComps([i \in 1..(Len(bc) - k) |-> <<"..">>]
                                    \o SubSeq(tc, k + 1, Len(tc)), sep),
              err  |-> NoErr])))))

----------------------------------------------------------------------------
(* package archive/zip: an archive is the sequence of its entries          *)
(* [name, isDir, content]; on the wire it is a count followed by the       *)
(* entries, each with its name, kind and content length-prefixed.          *)

\* the byte of a token
TokenTable ==
    <<"/", "\\", ".", "..", "app", "srv", "data", "install.exe", "config.txt",
      "tool", "setup.msi", ".intunewin", "out">>

TokenByte(tok) == CHOOSE i \in 1..Len(TokenTable) : TokenTable[i] = tok

EntryBytes(e) ==
    <<Len(e.name)>> \o [i \in 1..Len(e.name) |-> TokenByte(e.name[i])]
        \o <<IF e.isDir THEN 1 ELSE 0, Len(e.content)>> \o e.content

RECURSIVE EntriesBytes(_, _)
EntriesBytes(entries, i) ==
    IF i > Len(entries) THEN <<>>
    ELSE EntryBytes(entries[i]) \o EntriesBytes(entries, i + 1)

\* what zip.Writer leaves in the buffer after Close
ZipBytes(entries) == <<Len(entries)>> \o EntriesBytes(entries, 1)

RECURSIVE ReadEntries(_, _, _)
ReadEntries(b, pos, n) ==
    IF n = 0 THEN <<>>
    ELSE LET nl == b[pos]
             cl == b[pos + nl + 2]
         IN  <<[name    |-> [i \in 1..nl |-> TokenTable[b[pos + i]]],
                isDir   |-> b[pos + nl + 1] = 1,
                content |-> SubSeq(b, pos + nl + 3, pos + nl + 2 + cl)]>>
                \o ReadEntries(b, pos + nl + 3 + cl, n - 1)

\* zip.NewReader(...).File
ReadZip(b) == ReadEntries(b, 2, b[1])

----------------------------------------------------------------------------
(* package metadata *)

ToolVersion == <<"1.8.4.0">>

ProfileIdentifier == <<"ProfileVersion1">>

FileDigestAlgorithm == <<"SHA256">>

EncryptedFileName == <<"IntunePackage.intunewin">>

\* the alphabet of base64.StdEncoding and its padding character
StdAlphabet ==
    << "A", "B", "C", "D", "E", "F", "G", "H", "I", "J", "K", "L", "M",
       "N", "O", "P", "Q", "R", "S", "T", "U", "V", "W", "X", "Y", "Z",
       "a", "b", "c", "d", "e", "f", "g", "h", "i", "j", "k", "l", "m",
       "n", "o", "p", "q", "r", "s", "t", "u", "v", "w", "x", "y", "z",
       "0", "1", "2", "3", "4", "5", "6", "7", "8", "9", "+", "/" >>

StdPadding == "="

\* base64.StdEncoding.EncodeToString, from byte i on: three bytes give four
\* characters, a last group of one or two bytes is padded
RECURSIVE Base64From(_, _)
Base64From(b, i) ==
    IF i > Len(b) THEN <<>>
    ELSE LET b1 == b[i]
             b2 == IF i + 1 <= Len(b) THEN b[i + 1] ELSE 0
             b3 == IF i + 2 <= Len(b) THEN b[i + 2] ELSE 0
         IN  << StdAlphabet[(b1 \div 4) + 1],
                StdAlphabet[(b1 % 4) * 16 + (b2 \div 16) + 1],
                IF i + 1 <= Len(b)
                THEN StdAlphabet[(b2 % 16) * 4 + (b3 \div 64) + 1] ELSE StdPadding,
                IF i + 2 <= Len(b)
                THEN StdAlphabet[(b3 % 64) + 1] ELSE StdPadding >>
                \o Base64From(b, i + 3)

EncodeToString(b) == Base64From(b, 1)

\* a variant of ToBase64 that takes EncryptionKey and MacKey from each
\* other's field
ToBase64_SwapKeys(e) ==
    [EncryptionKey   |-> EncodeToString(e.MacKey),
     MacKey          |-> EncodeToString(e.EncryptionKey),
     IV              |-> EncodeToString(e.IV),
     MAC             |-> EncodeToString(e.MAC),
     FileDigest      |-> EncodeToString(e.FileDigest),
     UnencryptedSize |-> e.UnencryptedSize]

\* (e *EncryptionInfo) ToBase64
ToBase64(e) ==
    [EncryptionKey   |-> EncodeToString(e.EncryptionKey),
     MacKey          |-> EncodeToString(e.MacKey),
     IV              |-> EncodeToString(e.IV),
     MAC             |-> EncodeToString(e.MAC),
     FileDigest      |-> EncodeToString(e.FileDigest),
     UnencryptedSize |-> e.UnencryptedSize]

\* the value of a base64 character
Base64Value(c) == CHOOSE v \in 0..63 : StdAlphabet[v + 1] = c

\* base64.StdEncoding.DecodeString of a well-formed string, from character i
RECURSIVE Base64DecodeFrom(_, _)
Base64DecodeFrom(t, i) ==
    IF i + 3 > Len(t) THEN <<>>
    ELSE LET v1 == Base64Value(t[i])
             v2 == Base64Value(t[i + 1])
         IN  IF t[i + 2] = StdPadding
             THEN << v1 * 4 + (v2 \div 16) >>
             ELSE IF t[i + 3] = StdPadding
             THEN << v1 * 4 + (v2 \div 16),
                     (v2 % 16) * 16 + (Base64Value(t[i + 2]) \div 4) >>
             ELSE << v1 * 4 + (v2 \div 16),
                     (v2 % 16) * 16 + (Base64Value(t[i + 2]) \div 4),
                     (Base64Value(t[i + 2]) % 4) * 64 + Base64Value(t[i + 3]) >>
                  \o Base64DecodeFrom(t, i + 4)

DecodeString(t) == Base64DecodeFrom(t, 1)

----------------------------------------------------------------------------
(* package encoding/xml.  A document is a sequence of tokens: a piece of    *)
(* markup (a tag, the start of an attribute, an indentation), an escape     *)
(* sequence or a character of text.  A rune outside the alphabet of a       *)
(* document is written "U+hhhh".                                            *)

\* xml.Header
XMLHeader == "<?xml version=\"1.0\" encoding=\"UTF-8\"?>\n"

\* the runs of several characters the model keeps as one character of text
\* never hold one of these
EscapeTable ==
    << <<"\"", "&#34;">>, <<"'", "&#39;">>, <<"&", "&amp;">>, <<"<", "&lt;">>,
       <<">", "&gt;">>, <<"\t", "&#x9;">>, <<"\n", "&#xA;">>, <<"\r", "&#xD;">> >>

\* runes that are no XML characters (isInCharacterRange is false)
InvalidRunes == {"U+0001", "U+FFFE"}

\* what EscapeText writes for one rune
EscapeRune(c) ==
    IF \E i \in 1..Len(EscapeTable) : EscapeTable[i][1] = c
    THEN EscapeTable[CHOOSE i \in 1..Len(EscapeTable) : EscapeTable[i][1] = c][2]
    ELSE IF c \in InvalidRunes THEN "U+FFFD"
    ELSE c

\* a variant of EscapeText that writes every rune as it is
EscapeText_Raw(s) == s

\* xml.EscapeText
EscapeText(s) == [i \in 1..Len(s) |-> EscapeRune(s[i])]

\* the decoder's reading of one token of text
UnescapeRune(c) ==
    IF \E i \in 1..Len(EscapeTable) : EscapeTable[i][2] = c
    THEN EscapeTable[CHOOSE i \in 1..Len(EscapeTable) : EscapeTable[i][2] = c][1]
    ELSE c

\* text the decoder rejects: markup characters and runes that are no XML
\* characters
IllegalText(t) ==
    \E i \in 1..Len(t) : t[i] \in {"<", "&"} \cup InvalidRunes

UnescapeText(t) == [i \in 1..Len(t) |-> UnescapeRune(t[i])]

\* strconv.FormatInt(n, 10)
RECURSIVE FormatDigits(_)
FormatDigits(n) ==
    IF n < 10 THEN <<StdAlphabet[53 + n]>>
    ELSE Append(FormatDigits(n \div 10), StdAlphabet[53 + (n % 10)])

FormatInt(n) == IF n < 0 THEN <<"-">> \o FormatDigits(0 - n) ELSE FormatDigits(n)

\* strconv.ParseInt(s, 10, 64) of a well-formed numeral
RECURSIVE ParseDigits(_, _)
ParseDigits(t, n) ==
    IF n = 0 THEN 0
    ELSE ParseDigits(t, n - 1) * 10
            + (CHOOSE d \in 0..9 : StdAlphabet[53 + d] = t[n])

ParseInt(t) ==
    IF t # <<>> /\ t[1] = "-" THEN 0 - ParseDigits(Tail(t), Len(t) - 1)
    ELSE ParseDigits(t, Len(t))

\* an attribute as the encoder writes it
MarshalAttr(name, value) ==
    <<" " \o name \o "=\"">> \o EscapeText(value) \o <<"\"">>

\* an element with text only, after its indentation
MarshalField(indent, name, text) ==
    <<indent, "<" \o name \o ">">> \o EscapeText(text) \o <<"</" \o name \o ">">>

\* the first position of token tok in doc from position i on, 0 if none
IndexFrom(doc, tok, i) ==
    Bind({j \in i..Len(doc) : doc[j] = tok}, LAMBDA at :
        IF at = {} THEN 0 ELSE CHOOSE j \in at : \A k \in at : j <= k)

\* the tokens of doc between the first token open and the next token close,
\* if both are there
Between(doc, open, close) ==
    Bind(IndexFrom(doc, open, 1), LAMBDA from :
        IF from = 0 THEN [found |-> FALSE, text |-> <<>>]
        ELSE Bind(IndexFrom(doc, close, from + 1), LAMBDA to :
                IF to = 0 THEN [found |-> FALSE, text |-> <<>>]
                ELSE [found |-> TRUE, text |-> SubSeq(doc, from + 1, to - 1)]))

\* the decoder: the text of element name
ElementText(doc, name) == Between(doc, "<" \o name \o ">", "</" \o name \o ">")

\* the decoder: the value of attribute name
AttrText(doc, name) == Between(doc, " " \o name \o "=\"", "\"")

----------------------------------------------------------------------------
(* package metadata, continued *)

\* xml.MarshalIndent(appInfo, "", "  ")
MarshalIndent(appInfo) ==
    <<"<ApplicationInfo">>
        \o MarshalAttr("xmlns:xsi", appInfo.XSI)
        \o MarshalAttr("xmlns:xsd", appInfo.XSD)
        \o MarshalAttr("ToolVersion", appInfo.ToolVersion)
        \o <<">">>
        \o MarshalField("\n  ", "Name", appInfo.Name)
        \o MarshalField("\n  ", "UnencryptedContentSize",
                        FormatInt(appInfo.UnencryptedContentSize))
        \o MarshalField("\n  ", "FileName", appInfo.FileName)
        \o MarshalField("\n  ", "SetupFile", appInfo.SetupFile)
        \o <<"\n  ", "<EncryptionInfo>">>
        \o MarshalField("\n    ", "EncryptionKey", appInfo.EncryptionInfo.EncryptionKey)
        \o MarshalField("\n    ", "MacKey", appInfo.EncryptionInfo.MacKey)
        \o MarshalField("\n    ", "InitializationVector",
                        appInfo.EncryptionInfo.InitializationVector)
        \o MarshalField("\n    ", "Mac", appInfo.EncryptionInfo.Mac)
        \o MarshalField("\n    ", "ProfileIdentifier",
                        appInfo.EncryptionInfo.ProfileIdentifier)
        \o MarshalField("\n    ", "FileDigest", appInfo.EncryptionInfo.FileDigest)
        \o MarshalField("\n    ", "FileDigestAlgorithm",
                        appInfo.EncryptionInfo.FileDigestAlgorithm)
        \o <<"\n  ", "</EncryptionInfo>", "\n", "</ApplicationInfo>">>

\* (mutation) the Mac element is filled from the file digest
NewApplicationInfo_MacFromDigest(opts) ==
    [XSI         |-> <<"http://www.w3.org/2001/XMLSchema-instance">>,
     XSD         |-> <<"http://www.w3.org/2001/XMLSchema">>,
     ToolVersion |-> ToolVersion,
     Name        |-> opts.Name,
     UnencryptedContentSize |-> opts.CryptoInfo.UnencryptedSize,
     FileName    |-> EncryptedFileName,
     SetupFile   |-> opts.SetupFile,
     EncryptionInfo |->
        [EncryptionKey        |-> opts.CryptoInfo.EncryptionKey,
         MacKey               |-> opts.CryptoInfo.MacKey,
         InitializationVector |-> opts.CryptoInfo.IV,
         Mac                  |-> opts.CryptoInfo.FileDigest,
         ProfileIdentifier    |-> ProfileIdentifier,
         FileDigest           |-> opts.CryptoInfo.FileDigest,
         FileDigestAlgorithm  |-> FileDigestAlgorithm]]

\* the ApplicationInfo GenerateDetectionXML fills in
NewApplicationInfo(opts) ==
    [XSI         |-> <<"http://www.w3.org/2001/XMLSchema-instance">>,
     XSD         |-> <<"http://www.w3.org/2001/XMLSchema">>,
     ToolVersion |-> ToolVersion,
     Name        |-> opts.Name,
     UnencryptedContentSize |-> opts.CryptoInfo.UnencryptedSize,
     FileName    |-> EncryptedFileName,
     SetupFile   |-> opts.SetupFile,
     EncryptionInfo |->
        [EncryptionKey        |-> opts.CryptoInfo.EncryptionKey,
         MacKey               |-> opts.CryptoInfo.MacKey,
         InitializationVector |-> opts.CryptoInfo.IV,
         Mac                  |-> opts.CryptoInfo.MAC,
         ProfileIdentifier    |-> ProfileIdentifier,
         FileDigest           |-> opts.CryptoInfo.FileDigest,
         FileDigestAlgorithm  |-> FileDigestAlgorithm]]

\* GenerateDetectionXML: xml.Header, then the indented ApplicationInfo.
\* xml.MarshalIndent does not fail on this struct.
GenerateDetectionXML(opts) ==
    [xml |-> <<XMLHeader>> \o MarshalIndent(NewApplicationInfo(opts)),
     err |-> NoErr]

\* xml.Unmarshal(xmlData, &appInfo): the fields of ApplicationInfo, or an
\* error for a document that is not well formed
Unmarshal(doc) ==
    Bind([XSI         |-> AttrText(doc, "xmlns:xsi"),
          XSD         |-> AttrText(doc, "xmlns:xsd"),
          ToolVersion |-> AttrText(doc, "ToolVersion"),
          Name        |-> ElementText(doc, "Name"),
          UnencryptedContentSize |-> ElementText(doc, "UnencryptedContentSize"),
          FileName    |-> ElementText(doc, "FileName"),
          SetupFile   |-> ElementText(doc, "SetupFile"),
          EncryptionKey        |-> ElementText(doc, "EncryptionKey"),
          MacKey               |-> ElementText(doc, "MacKey"),
          InitializationVector |-> ElementText(doc, "InitializationVector"),
          Mac                  |-> ElementText(doc, "Mac"),
          ProfileIdentifier    |-> ElementText(doc, "ProfileIdentifier"),
          FileDigest           |-> ElementText(doc, "FileDigest"),
          FileDigestAlgorithm  |-> ElementText(doc, "FileDigestAlgorithm")],
         LAMBDA raw :
            IF \E f \in DOMAIN raw : ~raw[f].found \/ IllegalText(raw[f].text)
            THEN [appInfo |-> Nil, err |-> <<"XML syntax error">>]
            ELSE [appInfo |->
                    [XSI         |-> UnescapeText(raw.XSI.text),
                     XSD         |-> UnescapeText(raw.XSD.text),
                     ToolVersion |-> UnescapeText(raw.ToolVersion.text),
                     Name        |-> UnescapeText(raw.Name.text),
                     UnencryptedContentSize |->
                        ParseInt(raw.UnencryptedContentSize.text),
                     FileName    |-> UnescapeText(raw.FileName.text),
                     SetupFile   |-> UnescapeText(raw.SetupFile.text),
                     EncryptionInfo |->
                        [EncryptionKey        |-> UnescapeText(raw.EncryptionKey.text),
                         MacKey               |-> UnescapeText(raw.MacKey.text),
                         InitializationVector |->
                            UnescapeText(raw.InitializationVector.text),
                         Mac                  |-> UnescapeText(raw.Mac.text),
                         ProfileIdentifier    |-> UnescapeText(raw.ProfileIdentifier.text),
                         FileDigest           |-> UnescapeText(raw.FileDigest.text),
                         FileDigestAlgorithm  |->
                            UnescapeText(raw.FileDigestAlgorithm.text)]],
                  err |-> NoErr])

----------------------------------------------------------------------------
(* package packager *)

\* the runs of CreatePackage the model follows
Runs == {1, 2}

\* what filepath.Walk visits, in its order: the root as given, then every
\* entry of the tree with its path joined to the root.  A tree is the
\* sequence of its entries [rel, isDir, content] in lexical order, rel being
\* the names from the root down.
Walk(root, tree, sep) ==
    <<[path |-> root, isDir |-> TRUE, content |-> <<>>]>>
        \o [i \in 1..Len(tree) |->
              [path    |-> Join(root, JoinComps(tree[i].rel, sep), sep),
               isDir   |-> tree[i].isDir,
               content |-> tree[i].content]]

\* the callback createInnerZip passes to filepath.Walk, for a visit without
\* I/O error: the entries it adds to the archive
WalkFn(opts, visit, sep) ==
    Bind(Base(opts.SourceDir, sep), LAMBDA baseDir :
    Bind(Rel(opts.SourceDir, visit.path, sep), LAMBDA rel :
        IF rel.err # NoErr THEN [entries |-> <<>>, err |-> rel.err]
        ELSE IF rel.path = <<".">> THEN [entries |-> <<>>, err |-> NoErr]
        ELSE Bind(ReplaceAll(Join(baseDir, rel.path, sep), sep, "/"),
                  LAMBDA archivePath :
            IF visit.isDir
            THEN [entries |-> <<[name    |-> IF ~HasSuffix(archivePath, "/")
                                             THEN archivePath \o <<"/">>
                                             ELSE archivePath,
                                 isDir   |-> TRUE,
                                 content |-> <<>>]>>,
                  err |-> NoErr]
            ELSE [entries |-> <<[name    |-> archivePath,
                                 isDir   |-> FALSE,
                                 content |-> visit.content]>>,
                  err |-> NoErr])))

RECURSIVE WalkEntries(_, _, _, _)
WalkEntries(opts, visits, i, sep) ==
    IF i > Len(visits) THEN [entries |-> <<>>, err |-> NoErr]
    ELSE Bind(WalkFn(opts, visits[i], sep), LAMBDA one :
            IF one.err # NoErr THEN one
            ELSE Bind(WalkEntries(opts, visits, i + 1, sep), LAMBDA rest :
                    IF rest.err # NoErr THEN rest
                    ELSE [entries |-> one.entries \o rest.entries,
                          err     |-> NoErr]))

\* createInnerZip.  failAt is the visit at which an I/O operation fails
\* (Lstat, ReadDir, Open or Copy), 0 when none does; spare is the unused
\* capacity of the buffer behind buf.Bytes().
createInnerZip(opts, tree, sep, failAt, spare) ==
    IF failAt # 0 THEN [zip |-> Nil, err |-> <<"I/O error">>]
    ELSE Bind(WalkEntries(opts, Walk(opts.SourceDir, tree, sep), 1, sep),
              LAMBDA walked :
            IF walked.err # NoErr THEN [zip |-> Nil, err |-> walked.err]
            ELSE [zip |-> SliceOf(ZipBytes(walked.entries), spare),
                  err |-> NoErr])

MetadataPath == <<"IntuneWinPackage", "/", "Metadata", "/", "Detection.xml">>

ContentsPath == <<"IntuneWinPackage", "/", "Contents", "/">> \o EncryptedFileName

\* no file at a path
NoFile == [exists |-> FALSE, entries |-> <<>>, complete |-> FALSE]

FileAt(files, path) == IF path \in DOMAIN files THEN files[path] ELSE NoFile

\* a variant of WriteFile in which all runs write one and the same file
WriteFile_SharedFile(files, path, f) ==
    [q \in (DOMAIN files) \cup {path} |-> f]

WriteFile(files, path, f) ==
    [q \in (DOMAIN files) \cup {path} |-> IF q = path THEN f ELSE files[q]]

\* the steps of createOuterPackage at which an I/O operation can fail
OuterFailures ==
    {"none", "create", "addMetadata", "addContents", "zipClose", "fileClose"}

\* createOuterPackage.  fail is the step that fails; kept tells whether the
\* bytes written reach the disk when file.Close fails.  A file is the
\* entries written to it (fully) and whether it is a complete archive on
\* disk: the central directory is written by zw.Close and flushed with it.
createOuterPackage(files, outputPath, encryptedContent, detectionXML, fail, kept) ==
    LET meta == [name |-> MetadataPath, content |-> detectionXML]
        cont == [name |-> ContentsPath, content |-> encryptedContent]
        file(entries, complete) ==
            WriteFile(files, outputPath,
                      [exists |-> TRUE, entries |-> entries, complete |-> complete])
    IN  CASE fail = "create" ->
               [fs |-> files, err |-> <<"failed to create output file">>]
          [] fail = "addMetadata" ->
               \* the deferred zw.Close and file.Close run; their errors are dropped
               [fs |-> file(<<>>, FALSE), err |-> <<"failed to add Detection.xml">>]
          [] fail = "addContents" ->
               [fs |-> file(<<meta>>, FALSE),
                err |-> <<"failed to add encrypted content">>]
          [] fail = "zipClose" ->
               \* return nil; the error of the deferred zw.Close is dropped
               [fs |-> file(<<meta, cont>>, FALSE), err |-> NoErr]
          [] fail = "fileClose" ->
               \* return nil; the error of the deferred file.Close is dropped
               [fs |-> file(<<meta, cont>>, kept), err |-> NoErr]
          [] OTHER ->
               [fs |-> file(<<meta, cont>>, TRUE), err |-> NoErr]

\* the bytes of an output file as far as its content goes: the number of
\* entries written, whether the archive was completed, and the first bytes
\* of the container
FileBytes(f) ==
    <<Len(f.entries), IF f.complete THEN 1 ELSE 0>>
        \o (IF Len(f.entries) = 2 THEN SubSeq(f.entries[2].content, 1, 4)
            ELSE <<>>)

\* the order of names in a directory listing (os.ReadDir sorts by name);
\* the separator comes first, so that the entries below a directory follow
\* it at once
NameOrder ==
    <<"/", ".", ".intunewin", "app", "config.txt", "data", "install.exe",
      "out", "setup.msi", "srv", "tool">>

NameRank(tok) == CHOOSE i \in 1..Len(NameOrder) : NameOrder[i] = tok

\* a comes before b in the walk, from token i on
RECURSIVE WalkedBefore(_, _, _)
WalkedBefore(a, b, i) ==
    IF i > Len(a) THEN i <= Len(b)
    ELSE IF i > Len(b) THEN FALSE
    ELSE IF a[i] = b[i] THEN WalkedBefore(a, b, i + 1)
    ELSE NameRank(a[i]) < NameRank(b[i])

\* entry e put at its place in the walk order of tree
InsertEntry(tree, e) ==
    Bind(Cardinality({i \in 1..Len(tree) :
                        WalkedBefore(JoinComps(tree[i].rel, "/"),
                                     JoinComps(e.rel, "/"), 1)}),
         LAMBDA k : SubSeq(tree, 1, k) \o <<e>> \o SubSeq(tree, k + 1, Len(tree)))

\* the files of the file system that lie below directory dir
FilesBelow(files, dir, sep) ==
    {q \in DOMAIN files :
        /\ files[q].exists
        /\ \E rel \in {Rel(dir, q, sep)} :
              /\ rel.err = NoErr
              /\ rel.path # <<".">>
              /\ rel.path[1] # ".."}

\* what the walk of a source directory finds: the entries of the source
\* tree and the files written below the directory since
RECURSIVE TreeSeen(_, _, _, _, _)
TreeSeen(tree, files, below, dir, sep) ==
    IF below = {} THEN tree
    ELSE Bind(CHOOSE q \in below : TRUE, LAMBDA q :
            TreeSeen(InsertEntry(tree,
                                 [rel     |-> Components(Rel(dir, q, sep).path, sep),
                                  isDir   |-> FALSE,
                                  content |-> FileBytes(files[q])]),
                     files, below \ {q}, dir, sep))

\* a Packager before CreatePackage is called
NewRun(opts, tree) ==
    [pc |-> "start", opts |-> opts, tree |-> tree, innerZip |-> Nil,
     encInfo |-> Nil, encryptedContent |-> Nil, detectionXML |-> Nil,
     outputPath |-> Nil, ret |-> Nil, log |-> <<>>]

\* a run that is not part of the behaviour
IdleRun == [NewRun(Nil, <<>>) EXCEPT !.pc = "idle"]

\* a variant of Failed that leaves the run where it was, so that the stage
\* is run again
Failed_Retry(st, stage, msg, err) ==
    [st EXCEPT !.log = Append(@, stage),
               !.ret = [path |-> <<>>, err |-> <<msg>> \o err]]

\* return "", fmt.Errorf(msg + ": %w", err)
Failed(st, stage, msg, err) ==
    [st EXCEPT !.pc = "failed", !.log = Append(@, stage),
               !.ret = [path |-> <<>>, err |-> <<msg>> \o err]]

\* CreatePackage, step 1
CreateInnerZipStep(r) ==
    /\ run[r].pc = "start"
    /\ \E seen \in {TreeSeen(run[r].tree, fs,
                              FilesBelow(fs, run[r].opts.SourceDir, pathSep),
                              run[r].opts.SourceDir, pathSep)} :
       \E failAt \in 0..(Len(seen) + 1), spare \in SpareCaps :
       \E z \in {createInnerZip(run[r].opts, seen, pathSep, failAt, spare)} :
          LET st == run[r]
          IN  run' = [run EXCEPT ![r] =
                        IF z.err # NoErr
                        THEN Failed(st, "archive", "failed to create inner ZIP", z.err)
                        ELSE [st EXCEPT !.pc = "archived",
                                        !.log = Append(@, "archive"),
                                        !.innerZip = z.zip]]
    /\ UNCHANGED <<fs, pathSep, cryptoVars>>

\* CreatePackage, step 2
EncryptStep(r) ==
    /\ run[r].pc = "archived"
    /\ \E d1, d2, d3 \in Draws :
       \E e \in {Encrypt(run[r].innerZip, <<d1, d2, d3>>)} :
          LET st == run[r]
          IN  run' = [run EXCEPT ![r] =
                        IF e.err # NoErr
                        THEN Failed([st EXCEPT !.innerZip.arr = e.arr], "encrypt",
                                    "failed to encrypt content", e.err)
                        ELSE [st EXCEPT !.pc = "encrypted",
                                        !.log = Append(@, "encrypt"),
                                        !.innerZip.arr = e.arr,
                                        !.encInfo = e.info,
                                        !.encryptedContent = e.output]]
    /\ UNCHANGED <<fs, pathSep, cryptoVars>>

\* CreatePackage, step 3
GenerateDetectionXMLStep(r) ==
    /\ run[r].pc = "encrypted"
    /\ \E appName \in {Base(run[r].opts.SourceDir, pathSep)} :
       \E x \in {GenerateDetectionXML([Name       |-> appName,
                                       SetupFile  |-> run[r].opts.SetupFile,
                                       CryptoInfo |-> ToBase64(run[r].encInfo)])} :
       LET st == run[r]
       IN  run' = [run EXCEPT ![r] =
                     IF x.err # NoErr
                     THEN Failed(st, "metadata",
                                 "failed to generate Detection.xml", x.err)
                     ELSE [st EXCEPT !.pc = "rendered",
                                     !.log = Append(@, "metadata"),
                                     !.detectionXML = x.xml]]
    /\ UNCHANGED <<fs, pathSep, cryptoVars>>

\* CreatePackage, step 4 and the return
CreateOuterPackageStep(r) ==
    /\ run[r].pc = "rendered"
    /\ \E fail \in OuterFailures, kept \in BOOLEAN :
       \E appName \in {Base(run[r].opts.SourceDir, pathSep)} :
       \E outputPath \in {Join(run[r].opts.OutputDir, appName \o <<".intunewin">>,
                               pathSep)} :
       \E o \in {createOuterPackage(fs, outputPath, run[r].encryptedContent,
                                    run[r].detectionXML, fail, kept)} :
          LET st == run[r]
          IN  /\ fs' = o.fs
              /\ run' = [run EXCEPT ![r] =
                           IF o.err # NoErr
                           THEN Failed([st EXCEPT !.outputPath = outputPath],
                                       "assemble",
                                       "failed to create outer package", o.err)
                           ELSE [st EXCEPT !.pc = "done",
                                           !.log = Append(@, "assemble"),
                                           !.outputPath = outputPath,
                                           !.ret = [path |-> outputPath,
                                                    err |-> NoErr]]]
    /\ UNCHANGED <<pathSep, cryptoVars>>

----------------------------------------------------------------------------
(* The crypto specification: a caller's plaintext, then one call *)

\* plaintext byte patterns; pattern 0 is all zero bytes
PlainBytes(n, seed) == [i \in 1..n |-> (seed * (i * 11 + 37)) % 256]

\* the keys and IVs a caller passes to EncryptAES256CBC directly
\* the lengths of the keys and IVs a caller passes: the two sizes the
\* package names, the AES-192 key size and one byte more than a key
ArgSizes == {IVSize, 24, AES256KeySize, AES256KeySize + 1}

\* the keys and IVs a caller passes to EncryptAES256CBC directly
KeyArgs == {RandBytes(n, s) : n \in ArgSizes, s \in RandSeeds}

\* the sizes a caller passes to GenerateKey
KeySizes == {IVSize, AES256KeySize}

Init ==
    /\ \E n \in 0..MaxPlainLen, s \in 0..MaxSeed, spare \in SpareCaps :
          plaintext = SliceOf(PlainBytes(n, s), spare)
    /\ op = "none"
    /\ result = Nil
    /\ pathSep = "/"
    /\ run = [r \in Runs |-> IdleRun]
    /\ fs = <<>>

CallEncrypt ==
    /\ op = "none"
    /\ \E d1, d2, d3 \in Draws :
          \E r \in {Encrypt(plaintext, <<d1, d2, d3>>)} :
              /\ result' = [info |-> r.info, output |-> r.output,
                            err |-> r.err, arr |-> r.arr, draws |-> r.draws,
                            ciphertext |-> r.ciphertext,
                            rnd |-> <<d1, d2, d3>>, before |-> plaintext]
              /\ plaintext' = [plaintext EXCEPT !.arr = r.arr]
    /\ op' = "Encrypt"
    /\ UNCHANGED pkgVars

CallEncryptAES256CBC ==
    /\ op = "none"
    /\ \E key \in KeyArgs, iv \in KeyArgs :
          \E r \in {EncryptAES256CBC(key, iv, plaintext)} :
              /\ result' = [key |-> key, iv |-> iv,
                            ciphertext |-> r.ciphertext, err |-> r.err,
                            before |-> plaintext]
              /\ plaintext' = [plaintext EXCEPT !.arr = r.arr]
    /\ op' = "EncryptAES256CBC"
    /\ UNCHANGED pkgVars

CallPkcs7Pad ==
    /\ op = "none"
    /\ LET r == pkcs7Pad(plaintext, BlockSize)
       IN  /\ result' = [input |-> Bytes(plaintext), padded |-> Bytes(r.slice)]
           /\ plaintext' = IF r.inPlace
                           THEN [plaintext EXCEPT !.arr = r.slice.arr]
                           ELSE plaintext
    /\ op' = "pkcs7Pad"
    /\ UNCHANGED pkgVars

CallGenerateKey ==
    /\ op = "none"
    /\ \E size \in KeySizes, d \in Draws :
          \E r \in {GenerateKey(size, d)} :
              result' = [size |-> size, draw |-> d, key |-> r.key,
                         err |-> r.err]
    /\ op' = "GenerateKey"
    /\ UNCHANGED <<plaintext, pkgVars>>

CallGenerateIV ==
    /\ op = "none"
    /\ \E d \in Draws :
          \E r \in {GenerateIV(d)} :
              result' = [draw |-> d, key |-> r.key, err |-> r.err]
    /\ op' = "GenerateIV"
    /\ UNCHANGED <<plaintext, pkgVars>>

Next ==
    \/ CallEncrypt
    \/ CallEncryptAES256CBC
    \/ CallPkcs7Pad
    \/ CallGenerateKey
    \/ CallGenerateIV

Spec == Init /\ [][Next]_vars

----------------------------------------------------------------------------
(* The packaging specification: one run of CreatePackage on a source tree *)

\* the source tree of a run: the first entries, in walk order, of a folder
\* with a subfolder, a nested file and a file
FullTree ==
    << [rel |-> << <<"data">> >>, isDir |-> TRUE, content |-> <<>>],
       [rel |-> << <<"data">>, <<"config.txt">> >>, isDir |-> FALSE,
        content |-> <<99, 102>>],
       [rel |-> << <<"install.exe">> >>, isDir |-> FALSE, content |-> <<77>>] >>

Trees == {SubSeq(FullTree, 1, n) : n \in 0..Len(FullTree)}

\* the SourceDir values of a run: a relative folder, an absolute one, one
\* with a trailing separator, the current directory and the root
SourceDirs(sep) ==
    { <<"app">>, <<sep, "srv", sep, "app">>, <<"app", sep>>, <<".">>, <<sep>> }

OptionSet(sep) ==
    [SourceDir : SourceDirs(sep), SetupFile : {<<"install.exe">>},
     OutputDir : {<<"out">>}]

InitPkg ==
    /\ plaintext = SliceOf(<<>>, 0)
    /\ op = "packager"
    /\ result = Nil
    /\ pathSep \in {"/", "\\"}
    /\ \E o \in OptionSet(pathSep), tree \in Trees :
          run = [r \in Runs |-> IF r = 1 THEN NewRun(o, tree) ELSE IdleRun]
    /\ fs = <<>>

NextPkg ==
    \E r \in Runs :
        \/ CreateInnerZipStep(r)
        \/ EncryptStep(r)
        \/ GenerateDetectionXMLStep(r)
        \/ CreateOuterPackageStep(r)

SpecPkg == InitPkg /\ [][NextPkg]_vars

----------------------------------------------------------------------------
(* The concurrent specification: two runs of CreatePackage on different      *)
(* source trees with different output paths, their steps interleaved        *)

\* the second source tree
ToolTree ==
    << [rel |-> << <<"setup.msi">> >>, isDir |-> FALSE, content |-> <<109, 115>>] >>

\* the first run packs app into out; the second packs tool into out or into
\* the source directory of the first
InitConc ==
    /\ plaintext = SliceOf(<<>>, 0)
    /\ op = "packager"
    /\ result = Nil
    /\ pathSep = "/"
    /\ \E dir \in {<<"out">>, <<"app">>} :
          run = [r \in Runs |->
                    IF r = 1
                    THEN NewRun([SourceDir |-> <<"app">>,
                                 SetupFile |-> <<"install.exe">>,
                                 OutputDir |-> <<"out">>],
                                SubSeq(FullTree, 3, 3))
                    ELSE NewRun([SourceDir |-> <<"tool">>,
                                 SetupFile |-> <<"setup.msi">>,
                                 OutputDir |-> dir],
                                ToolTree)]
    /\ fs = <<>>

SpecConc == InitConc /\ [][NextPkg]_vars

----------------------------------------------------------------------------
(* The metadata specification: a caller's DetectionXMLOptions or            *)
(* EncryptionInfo, then one call                                            *)

\* the runes of the names a caller passes: a letter, the characters the
\* encoder escapes, and a rune that is no XML character
NameRunes == {"T", "<", "&", "\"", "\n", "U+0001"}

MaxNameLen == 2

Names == UNION {[1..n -> NameRunes] : n \in 0..MaxNameLen}

SetupFiles == {<<>>, <<"i", ".", "e", "x", "e">>, <<">", "'">>}

UnencryptedSizes == {0, 7, 1234567}

\* the byte strings of the fields of an EncryptionInfo: every length modulo
\* three, and every two-bit group of a byte set
FieldBytes == {<<>>, <<77>>, <<77, 97>>, <<255, 254, 253, 252>>}

EncryptionInfos ==
    [EncryptionKey : FieldBytes, MacKey : FieldBytes, IV : FieldBytes,
     MAC : {<<77, 97, 110>>, <<0>>}, FileDigest : FieldBytes,
     UnencryptedSize : {0, 1234567}]

\* the CryptoInfo values a caller passes: five different base64 strings
CryptoInfos ==
    {ToBase64([EncryptionKey |-> <<1, 2, 3>>, MacKey |-> <<4, 5>>,
               IV |-> <<6>>, MAC |-> <<7, 8, 9, 10>>, FileDigest |-> <<>>,
               UnencryptedSize |-> n]) : n \in UnencryptedSizes}

DetectionXMLOptions ==
    [Name : Names, SetupFile : SetupFiles, CryptoInfo : CryptoInfos]

InitMeta ==
    /\ plaintext = SliceOf(<<>>, 0)
    /\ op = "metadata"
    /\ result \in {[opts |-> o] : o \in DetectionXMLOptions}
                    \cup {[info |-> e] : e \in EncryptionInfos}
    /\ pathSep = "/"
    /\ run = [r \in Runs |-> IdleRun]
    /\ fs = <<>>

CallGenerateDetectionXML ==
    /\ op = "metadata"
    /\ DOMAIN result = {"opts"}
    /\ \E g \in {GenerateDetectionXML(result.opts)} :
          result' = [opts |-> result.opts, xml |-> g.xml, err |-> g.err]
    /\ op' = "GenerateDetectionXML"
    /\ UNCHANGED <<plaintext, pkgVars>>

CallToBase64 ==
    /\ op = "metadata"
    /\ DOMAIN result = {"info"}
    /\ result' = [before |-> result.info, info |-> result.info,
                  b64 |-> ToBase64(result.info)]
    /\ op' = "ToBase64"
    /\ UNCHANGED <<plaintext, pkgVars>>

NextMeta ==
    \/ CallGenerateDetectionXML
    \/ CallToBase64

SpecMeta == InitMeta /\ [][NextMeta]_vars

----------------------------------------------------------------------------
(* What a recipient does with a container (the checks of TestEncrypt and    *)
(* TestEncryptAES256CBC)                                                    *)

\* the MAC check: recompute the HMAC over bytes 32.. and compare with 0..32
VerifyContainer(macKey, container) ==
    /\ Len(container) >= HMACSize
    /\ ComputeHMACSHA256(macKey, SubSeq(container, HMACSize + 1, Len(container)))
         = SubSeq(container, 1, HMACSize)

\* remove as many trailing bytes as the value of the last byte
StripPadding(decrypted) ==
    SubSeq(decrypted, 1, Len(decrypted) - decrypted[Len(decrypted)])

\* b with bit number `bit` inverted
FlipBit(b, bit) ==
    IF (b \div (2 ^ bit)) % 2 = 1 THEN b - 2 ^ bit ELSE b + 2 ^ bit

\* the container with one bit of the byte at pos inverted
Tamper(container, pos, bit) ==
    [container EXCEPT ![pos] = FlipBit(container[pos], bit)]

----------------------------------------------------------------------------
(* Properties of package crypto, under Spec *)

EncryptOK == op = "Encrypt" /\ result.err = NoErr

CBCOK == op = "EncryptAES256CBC" /\ result.err = NoErr

\* the plaintext as the caller passed it
P == Bytes(plaintext)

\* C1: the container returned by a successful Encrypt is info.MAC (32 bytes),
\* then info.IV (16 bytes), then the ciphertext, with nothing in between; the
\* IV in bytes 32..48 is the one the CBC encryption used (decrypting with it
\* gives the plaintext back).
C1_ContainerLayout ==
    EncryptOK =>
        LET out == result.output
            ct  == result.ciphertext
        IN  /\ out = result.info.MAC \o result.info.IV \o ct
            /\ Len(out) = HMACSize + IVSize + Len(ct)
            /\ SubSeq(out, 1, HMACSize) = result.info.MAC
            /\ SubSeq(out, HMACSize + 1, HMACSize + IVSize) = result.info.IV
            /\ SubSeq(out, HMACSize + IVSize + 1, Len(out)) = ct
            /\ StripPadding(CBCDecrypt(result.info.EncryptionKey,
                    SubSeq(out, HMACSize + 1, HMACSize + IVSize),
                    SubSeq(out, HMACSize + IVSize + 1, Len(out)))) = P

C1_Witness ==
    /\ EncryptOK
    /\ plaintext.len = BlockSize
    /\ Len(result.output) = HMACSize + IVSize + 2 * BlockSize

\* C2: HMAC-SHA256 with the returned MacKey over bytes 32.. of the container
\* (IV then ciphertext) is the returned MAC, which is bytes 0..32.
C2_MacOverIvAndCiphertext ==
    EncryptOK =>
        LET out == result.output
        IN  /\ ComputeHMACSHA256(result.info.MacKey,
                                 SubSeq(out, HMACSize + 1, Len(out)))
                 = result.info.MAC
            /\ ComputeHMACSHA256(result.info.MacKey,
                                 result.info.IV \o result.ciphertext)
                 = result.info.MAC
            /\ SubSeq(out, 1, HMACSize) = result.info.MAC
            /\ VerifyContainer(result.info.MacKey, out)

C2_Witness ==
    /\ EncryptOK
    /\ plaintext.len = MaxPlainLen
    /\ VerifyContainer(result.info.MacKey, result.output)

\* C3: the container with any single bit inverted (in the MAC, the IV or the
\* ciphertext) fails the MAC check.
C3_BitFlipDetected ==
    EncryptOK =>
        \A pos \in 1..Len(result.output), bit \in 0..7 :
            ~VerifyContainer(result.info.MacKey,
                             Tamper(result.output, pos, bit))

C3_Witness ==
    /\ EncryptOK
    /\ plaintext.len > 0
    /\ VerifyContainer(result.info.MacKey, result.output)
    /\ ~VerifyContainer(result.info.MacKey,
                        Tamper(result.output, HMACSize + 1, 0))
    /\ ~VerifyContainer(result.info.MacKey,
                        Tamper(result.output, Len(result.output), 7))

\* C4: the ciphertext of a plaintext of n bytes has 16 * (n div 16 + 1)
\* bytes, from EncryptAES256CBC and from Encrypt alike.
C4_CiphertextLength ==
    /\ CBCOK => Len(result.ciphertext)
                    = BlockSize * ((plaintext.len \div BlockSize) + 1)
    /\ EncryptOK =>
          /\ Len(result.ciphertext)
                = BlockSize * ((plaintext.len \div BlockSize) + 1)
          /\ Len(result.output) - HMACSize - IVSize
                = BlockSize * ((plaintext.len \div BlockSize) + 1)

C4_Witness ==
    /\ CBCOK
    /\ plaintext.len = BlockSize
    /\ Len(result.ciphertext) = 2 * BlockSize

\* C5: decrypting the output of EncryptAES256CBC(key, iv, P) under the same
\* key and IV and removing as many trailing bytes as the last byte says
\* gives P.
C5_DecryptRoundTrip ==
    CBCOK =>
        StripPadding(CBCDecrypt(result.key, result.iv, result.ciphertext)) = P

C5_Witness ==
    /\ CBCOK
    /\ plaintext.len = MaxPlainLen
    /\ \E i \in 1..plaintext.len : P[i] # 0
    /\ result.ciphertext # P

\* C6: pkcs7Pad with block size 16 appends k = 16 - (n mod 16) bytes of
\* value k to an input of n bytes and keeps the input as the first n bytes.
C6_Pkcs7Pad ==
    op = "pkcs7Pad" =>
        LET n == Len(result.input)
            k == BlockSize - (n % BlockSize)
        IN  /\ k >= 1 /\ k <= BlockSize
            /\ Len(result.padded) = n + k
            /\ SubSeq(result.padded, 1, n) = result.input
            /\ \A i \in (n + 1)..(n + k) : result.padded[i] = k

C6_Witness ==
    /\ op = "pkcs7Pad"
    /\ result.input = MakeBytes(BlockSize)
    /\ Len(result.padded) = 2 * BlockSize
    /\ \A i \in (BlockSize + 1)..(2 * BlockSize) : result.padded[i] = 16

\* C7: the EncryptionInfo of a successful Encrypt has a 32-byte
\* EncryptionKey, a 32-byte MacKey, a 16-byte IV, a 32-byte MAC and a
\* 32-byte FileDigest.
C7_FieldSizes ==
    EncryptOK =>
        /\ Len(result.info.EncryptionKey) = 32
        /\ Len(result.info.MacKey) = 32
        /\ Len(result.info.IV) = 16
        /\ Len(result.info.MAC) = 32
        /\ Len(result.info.FileDigest) = 32

C7_Witness ==
    /\ EncryptOK
    /\ plaintext.len = 0
    /\ Len(result.info.MacKey) = 32

\* C8: UnencryptedSize is the length of the plaintext as given and
\* FileDigest its SHA-256, not those of the padded plaintext or of the
\* ciphertext.
C8_PlaintextDerivedFields ==
    EncryptOK =>
        /\ result.info.UnencryptedSize = Len(P)
        /\ result.info.FileDigest = ComputeSHA256(P)

C8_Witness ==
    /\ EncryptOK
    /\ plaintext.len = BlockSize - 1
    /\ Cap(plaintext) > plaintext.len
    /\ result.info.UnencryptedSize = BlockSize - 1
    /\ result.info.FileDigest # ComputeSHA256(result.ciphertext)
    /\ result.info.FileDigest
         # ComputeSHA256(Bytes(pkcs7Pad(plaintext, BlockSize).slice))

----------------------------------------------------------------------------
(* The packaging claims *)

\* the two entries of the output container of a run
OuterEntries(st) ==
    << [name |-> MetadataPath, content |-> st.detectionXML],
       [name |-> ContentsPath, content |-> st.encryptedContent] >>

\* C9: after every successful CreatePackage the file at the output path is a
\* ZIP archive with exactly two entries, in this order:
\* IntuneWinPackage/Metadata/Detection.xml holding the rendered metadata
\* document and IntuneWinPackage/Contents/IntunePackage.intunewin holding
\* the container returned by Encrypt.
C9_OutputArchive ==
    \A r \in Runs :
        run[r].pc = "done" =>
            \E f \in {FileAt(fs, run[r].outputPath)} :
                /\ f.exists
                /\ f.complete
                /\ f.entries = OuterEntries(run[r])

\* the entries the inner archive is to hold for a source tree: one for each
\* entry below SourceDir, named base name, '/', relative path with forward
\* slashes, a directory with '/' at the end, a file with its content
InnerEntries(opts, tree, sep) ==
    [i \in 1..Len(tree) |->
        [name    |-> Base(opts.SourceDir, sep) \o <<"/">>
                        \o JoinComps(tree[i].rel, "/")
                        \o (IF tree[i].isDir THEN <<"/">> ELSE <<>>),
         isDir   |-> tree[i].isDir,
         content |-> tree[i].content]]

\* C10: for every SourceDir the archive createInnerZip returns holds exactly
\* one entry for each file and directory below SourceDir and none for the
\* root; each name is the base name of SourceDir, '/', and the path relative
\* to SourceDir with forward slashes; directory names end with '/', file
\* entries hold the file's content.
C10_InnerArchiveEntries ==
    \A r \in Runs :
        run[r].innerZip # Nil =>
            ReadZip(Bytes(run[r].innerZip))
                = InnerEntries(run[r].opts, run[r].tree, pathSep)

----------------------------------------------------------------------------
(* The metadata claims *)

RenderedOK == op = "GenerateDetectionXML" /\ result.err = NoErr

\* C11: for every name, setup file, size and five base64 strings passed to
\* GenerateDetectionXML, parsing the returned document yields exactly those
\* values in Name, SetupFile, UnencryptedContentSize, EncryptionKey, MacKey,
\* InitializationVector, Mac and FileDigest.
C11_ParseBack ==
    RenderedOK =>
        \E u \in {Unmarshal(result.xml)} :
            /\ u.err = NoErr
            /\ u.appInfo.Name = result.opts.Name
            /\ u.appInfo.SetupFile = result.opts.SetupFile
            /\ u.appInfo.UnencryptedContentSize
                 = result.opts.CryptoInfo.UnencryptedSize
            /\ u.appInfo.EncryptionInfo.EncryptionKey
                 = result.opts.CryptoInfo.EncryptionKey
            /\ u.appInfo.EncryptionInfo.MacKey = result.opts.CryptoInfo.MacKey
            /\ u.appInfo.EncryptionInfo.InitializationVector
                 = result.opts.CryptoInfo.IV
            /\ u.appInfo.EncryptionInfo.Mac = result.opts.CryptoInfo.MAC
            /\ u.appInfo.EncryptionInfo.FileDigest
                 = result.opts.CryptoInfo.FileDigest

\* C12: for every input to GenerateDetectionXML the fixed parts are the
\* same: the document starts with the XML declaration, the root element
\* ApplicationInfo carries xmlns:xsi, xmlns:xsd and ToolVersion "1.8.4.0",
\* FileName is "IntunePackage.intunewin", ProfileIdentifier is
\* "ProfileVersion1" and FileDigestAlgorithm is "SHA256".
C12_FixedParts ==
    RenderedOK =>
        /\ SubSeq(result.xml, 1, 4)
             = << "<?xml version=\"1.0\" encoding=\"UTF-8\"?>\n",
                  "<ApplicationInfo", " xmlns:xsi=\"",
                  "http://www.w3.org/2001/XMLSchema-instance" >>
        /\ \E u \in {Unmarshal(result.xml)} :
              /\ u.err = NoErr
              /\ u.appInfo.XSI = <<"http://www.w3.org/2001/XMLSchema-instance">>
              /\ u.appInfo.XSD = <<"http://www.w3.org/2001/XMLSchema">>
              /\ u.appInfo.ToolVersion = <<"1.8.4.0">>
              /\ u.appInfo.FileName = <<"IntunePackage.intunewin">>
              /\ u.appInfo.EncryptionInfo.ProfileIdentifier = <<"ProfileVersion1">>
              /\ u.appInfo.EncryptionInfo.FileDigestAlgorithm = <<"SHA256">>

C12_Witness ==
    /\ RenderedOK
    /\ result.opts.Name = <<"<", "\"">>
    /\ result.opts.SetupFile = <<">", "'">>
    /\ result.opts.CryptoInfo.UnencryptedSize = 1234567
    /\ Unmarshal(result.xml).appInfo.FileName = <<"IntunePackage.intunewin">>

\* the fields of an EncryptionInfo that hold bytes
BinaryFields == {"EncryptionKey", "MacKey", "IV", "MAC", "FileDigest"}

\* C13: for every EncryptionInfo, ToBase64 gives for each of EncryptionKey,
\* MacKey, IV, MAC and FileDigest the padded standard-alphabet base64 text of
\* that very field, so decoding it gives the field's bytes back; it copies
\* UnencryptedSize and leaves the EncryptionInfo as it was.
C13_ToBase64 ==
    op = "ToBase64" =>
        /\ \A f \in BinaryFields :
              /\ Len(result.b64[f]) = 4 * ((Len(result.before[f]) + 2) \div 3)
              /\ \A i \in 1..Len(result.b64[f]) :
                    \/ \E v \in 1..64 : StdAlphabet[v] = result.b64[f][i]
                    \/ /\ result.b64[f][i] = "="
                       /\ i > Len(result.b64[f]) - 2
              /\ DecodeString(result.b64[f]) = result.before[f]
        /\ result.b64.UnencryptedSize = result.before.UnencryptedSize
        /\ result.info = result.before

C13_Witness ==
    /\ op = "ToBase64"
    /\ result.before.EncryptionKey = <<77>>
    /\ result.before.MacKey = <<77, 97>>
    /\ result.before.MAC = <<77, 97, 110>>
    /\ result.before.IV = <<255, 254, 253, 252>>
    /\ result.b64.EncryptionKey = <<"T", "Q", "=", "=">>
    /\ result.b64.MacKey = <<"T", "W", "E", "=">>
    /\ result.b64.MAC = <<"T", "W", "F", "u">>
    /\ result.b64.IV = <<"/", "/", "7", "9", "/", "A", "=", "=">>
    /\ result.b64.UnencryptedSize = 1234567

----------------------------------------------------------------------------
(* The claims about a run of CreatePackage *)

\* the path CreatePackage writes to
OutputPathOf(opts, sep) ==
    Join(opts.OutputDir, Base(opts.SourceDir, sep) \o <<".intunewin">>, sep)

\* C14: every run of CreatePackage produces a complete, correct container or
\* nothing: when it returns a nil error the file at the output path is a
\* fully written, closed archive holding both entries; when it returns an
\* error no file is left at the output path.
C14_CompleteOrNothing ==
    \A r \in Runs :
        run[r].pc \in {"done", "failed"} =>
            \E f \in {FileAt(fs, OutputPathOf(run[r].opts, pathSep))} :
                /\ run[r].pc = "done" =>
                      f.exists /\ f.complete /\ f.entries = OuterEntries(run[r])
                /\ run[r].pc = "failed" => ~f.exists

\* the stages of CreatePackage in their order and the error context of each
Stages == <<"archive", "encrypt", "metadata", "assemble">>

StageError ==
    [archive  |-> "failed to create inner ZIP",
     encrypt  |-> "failed to encrypt content",
     metadata |-> "failed to generate Detection.xml",
     assemble |-> "failed to create outer package"]

\* the stages that have started are the first ones, each once, and all but
\* a failed last one have completed
StagesInOrder(st) ==
    /\ Len(st.log) <= Len(Stages)
    /\ st.log = SubSeq(Stages, 1, Len(st.log))
    /\ st.pc = "failed" =>
          /\ st.log # <<>>
          /\ st.ret.path = <<>>
          /\ st.ret.err # NoErr
          /\ st.ret.err[1] = StageError[st.log[Len(st.log)]]
    /\ st.pc = "done" =>
          /\ st.log = Stages
          /\ st.ret.err = NoErr
    /\ st.pc \notin {"failed", "done", "idle"} => st.ret = Nil

ZipAlone(st, sep) == Bytes(createInnerZip(st.opts, st.tree, sep, 0, 0).zip)

\* what a run holds and has written is what it produces running alone: the
\* archive of its own source tree, that archive encrypted and authenticated
\* under its own keys, the metadata of its own EncryptionInfo, and at its
\* output path nothing before final assembly and its own two entries after
RunsAlone(st, files, sep) ==
    \E zip \in {ZipAlone(st, sep)}, f \in {FileAt(files, OutputPathOf(st.opts, sep))} :
        /\ st.innerZip # Nil => Bytes(st.innerZip) = zip
        /\ st.encInfo # Nil =>
              \E ct \in {CBCEncrypt(st.encInfo.EncryptionKey, st.encInfo.IV,
                                    Bytes(pkcs7Pad(SliceOf(zip, 0), BlockSize).slice))} :
                  /\ st.encryptedContent = st.encInfo.MAC \o st.encInfo.IV \o ct
                  /\ VerifyContainer(st.encInfo.MacKey, st.encryptedContent)
                  /\ st.encInfo.FileDigest = ComputeSHA256(zip)
                  /\ st.encInfo.UnencryptedSize = Len(zip)
        /\ st.detectionXML # Nil =>
              st.detectionXML
                = GenerateDetectionXML([Name       |-> Base(st.opts.SourceDir, sep),
                                        SetupFile  |-> st.opts.SetupFile,
                                        CryptoInfo |-> ToBase64(st.encInfo)]).xml
        /\ st.pc \in {"start", "archived", "encrypted", "rendered"} => ~f.exists
        /\ st.pc = "done" => f.exists /\ f.entries = OuterEntries(st)
        /\ st.pc = "failed" /\ st.log # Stages => ~f.exists

\* the runs are on different source trees and write to different paths
DifferentRuns ==
    \A r, q \in Runs :
        r # q /\ run[r].pc # "idle" /\ run[q].pc # "idle" =>
            /\ run[r].opts.SourceDir # run[q].opts.SourceDir
            /\ run[r].tree # run[q].tree
            /\ OutputPathOf(run[r].opts, pathSep) # OutputPathOf(run[q].opts, pathSep)

\* no run writes its output below the source directory of another
OutputsOutsideSources ==
    \A r, q \in Runs :
        r # q /\ run[r].pc # "idle" /\ run[q].pc # "idle" =>
            \E rel \in {Rel(run[q].opts.SourceDir,
                            OutputPathOf(run[r].opts, pathSep), pathSep)} :
                rel.err # NoErr \/ rel.path = <<".">> \/ rel.path[1] = ".."

\* C16 as stated: two concurrent runs on different source trees that write
\* to different output paths produce, under every interleaving, what each
\* produces alone.
C16_RunsIndependent ==
    DifferentRuns =>
        \A r \in Runs : run[r].pc # "idle" => RunsAlone(run[r], fs, pathSep)

\* C16, amended: two concurrent runs on different source trees that write to
\* different output paths, neither below the source directory of the other,
\* produce under every interleaving what each produces alone, and a step of
\* one run changes nothing the other holds.
C16_RunsIndependentOutside ==
    /\ [](DifferentRuns /\ OutputsOutsideSources =>
            \A r \in Runs : run[r].pc # "idle" => RunsAlone(run[r], fs, pathSep))
    /\ [][OutputsOutsideSources =>
            \A r, q \in Runs :
                r # q /\ run'[r] # run[r] =>
                    /\ run'[q] = run[q]
                    /\ FileAt(fs', OutputPathOf(run[q].opts, pathSep))
                         = FileAt(fs, OutputPathOf(run[q].opts, pathSep))]_vars

C16_Witness ==
    /\ DifferentRuns
    /\ OutputsOutsideSources
    /\ \A r \in Runs : run[r].pc = "done"
    /\ run[1].encInfo.EncryptionKey # run[2].encInfo.EncryptionKey
    /\ FileAt(fs, run[1].outputPath).entries = OuterEntries(run[1])
    /\ FileAt(fs, run[2].outputPath).entries = OuterEntries(run[2])
    /\ run[1].encryptedContent # run[2].encryptedContent

\* C17: in every successful CreatePackage the base name of SourceDir is the
\* top-level folder of every entry of the inner archive, the Name of the
\* metadata document and the stem of the output file name
\* (<name>.intunewin in OutputDir).
C17_OneAppName ==
    \A r \in Runs :
        run[r].pc = "done" =>
            \E appName \in {Base(run[r].opts.SourceDir, pathSep)} :
                /\ \A e \in {ReadZip(Bytes(run[r].innerZip))[i] :
                               i \in 1..Len(run[r].tree)} :
                      Components(e.name, "/")[1] = appName
                /\ Unmarshal(run[r].detectionXML).appInfo.Name = appName
                /\ Base(run[r].ret.path, pathSep) = appName \o <<".intunewin">>
                /\ run[r].ret.path
                     = Clean(run[r].opts.OutputDir, pathSep)
                          \o <<pathSep>> \o appName \o <<".intunewin">>


\* C18: a failed read of the random source is fatal.  GenerateKey and
\* GenerateIV return an error and no bytes; Encrypt returns an error, no
\* info and no output, has encrypted nothing and written nothing to the
\* caller's buffer, and has made no read after the failed one.
C18_RandomFailureFatal ==
    /\ (op \in {"GenerateKey", "GenerateIV"} /\ ~result.draw.ok)
          => (result.err # NoErr /\ result.key = Nil)
    /\ op = "Encrypt"
          => \E failing \in {{i \in 1..3 : ~result.rnd[i].ok}} :
                failing # {}
                  => /\ result.err # NoErr
                     /\ result.info = Nil
                     /\ result.output = Nil
                     /\ result.ciphertext = Nil
                     /\ \A i \in failing : result.draws <= i
                     /\ result.draws \in failing
                     /\ plaintext = result.before

\* the second read fails in Encrypt: the MAC key cannot be drawn
C18_Witness ==
    /\ op = "Encrypt"
    /\ result.rnd[1].ok
    /\ ~result.rnd[2].ok
    /\ result.draws = 2
    /\ result.err = <<"failed to generate MAC key",
                      "failed to generate random key">>
    /\ result.info = Nil

\* C19: in every successful Encrypt call the encryption key is the bytes of
\* the first draw and the MAC key the bytes of the second draw; the
\* ciphertext is the AES-CBC encryption of the padded plaintext under the
\* encryption key and the MAC is the HMAC of IV and ciphertext under the MAC
\* key; when the two draws differ, the MAC key would not have produced the
\* ciphertext and the encryption key would not have produced the MAC.
C19_IndependentKeys ==
    EncryptOK
      => \E padded \in {Bytes(pkcs7Pad(result.before, BlockSize).slice)} :
           /\ result.draws = 3
           /\ \A i \in 1..3 : result.rnd[i].ok
           /\ result.info.EncryptionKey
                 = RandBytes(AES256KeySize, result.rnd[1].seed)
           /\ result.info.MacKey
                 = RandBytes(AES256KeySize, result.rnd[2].seed)
           /\ result.ciphertext
                 = CBCEncrypt(result.info.EncryptionKey, result.info.IV, padded)
           /\ result.info.MAC
                 = ComputeHMACSHA256(result.info.MacKey,
                                     result.info.IV \o result.ciphertext)
           /\ result.rnd[1].seed # result.rnd[2].seed
                 => /\ result.info.EncryptionKey # result.info.MacKey
                    /\ result.ciphertext
                          # CBCEncrypt(result.info.MacKey, result.info.IV,
                                       padded)
                    /\ result.info.MAC
                          # ComputeHMACSHA256(result.info.EncryptionKey,
                                result.info.IV \o result.ciphertext)

\* a successful call on a non-empty plaintext whose two key draws differ
C19_Witness ==
    /\ EncryptOK
    /\ result.rnd[1].seed # result.rnd[2].seed
    /\ result.before.len > 0
    /\ result.info.EncryptionKey # result.info.MacKey

\* C20: EncryptAES256CBC called with a key that is not 32 bytes long or an
\* IV that is not 16 bytes long returns an error and no ciphertext and
\* leaves the plaintext slice and its backing array as they were; called
\* with a 32-byte key and a 16-byte IV it returns no error and a ciphertext
\* of whole blocks, for every plaintext.
C20_KeyAndIVSizes ==
    op = "EncryptAES256CBC"
      => /\ (Len(result.key) # 32 \/ Len(result.iv) # 16)
               => /\ result.err # NoErr
                  /\ result.ciphertext = Nil
                  /\ plaintext = result.before
         /\ (Len(result.key) = 32 /\ Len(result.iv) = 16)
               => /\ result.err = NoErr
                  /\ Len(result.ciphertext) > result.before.len
                  /\ Len(result.ciphertext) % 16 = 0

\* a 32-byte key with a 32-byte IV is rejected although the plaintext has
\* room for the padding
C20_Witness ==
    /\ op = "EncryptAES256CBC"
    /\ Len(result.key) = 32
    /\ Len(result.iv) = 32
    /\ result.err = <<"invalid IV size">>
    /\ Cap(result.before) > result.before.len
    /\ result.before.len > 0

\* the number of times a run has passed a stage
StageCount(st, stage) == Cardinality({i \in DOMAIN st.log : st.log[i] = stage})

\* the metadata document xml describes the container blob made from the
\* inner archive inner by the Encrypt call that returned info
Describes(xml, blob, inner, info) ==
    \E u \in {Unmarshal(xml)} :
       /\ u.err = NoErr
       /\ \E key    \in {DecodeString(u.appInfo.EncryptionInfo.EncryptionKey)},
             macKey \in {DecodeString(u.appInfo.EncryptionInfo.MacKey)},
             iv     \in {DecodeString(u.appInfo.EncryptionInfo.InitializationVector)},
             mac    \in {DecodeString(u.appInfo.EncryptionInfo.Mac)},
             digest \in {DecodeString(u.appInfo.EncryptionInfo.FileDigest)},
             ct     \in {SubSeq(blob, HMACSize + IVSize + 1, Len(blob))} :
             /\ mac = SubSeq(blob, 1, 32)
             /\ iv = SubSeq(blob, 33, 48)
             /\ ct = CBCEncrypt(key, iv,
                          Bytes(pkcs7Pad(SliceOf(inner, 0), BlockSize).slice))
             /\ StripPadding(CBCDecrypt(key, iv, ct)) = inner
             /\ mac = ComputeHMACSHA256(macKey, iv \o ct)
             /\ u.appInfo.UnencryptedContentSize = Len(inner)
             /\ digest = ComputeSHA256(inner)
             /\ key = info.EncryptionKey
             /\ macKey = info.MacKey
             /\ iv = info.IV
             /\ mac = info.MAC
             /\ digest = info.FileDigest
             /\ u.appInfo.UnencryptedContentSize = info.UnencryptedSize

C22_InputsUnchanged ==
    /\ op \in {"Encrypt", "EncryptAES256CBC"}
          => /\ Bytes(plaintext) = Bytes(result.before)
             /\ plaintext.arr = result.before.arr
    /\ EncryptOK
          => /\ result.info.IV = RandBytes(IVSize, result.rnd[3].seed)
             /\ result.info.IV
                   = SubSeq(result.output, HMACSize + 1, HMACSize + IVSize)

=============================================================================
